---- MODULE Spec2Model ----
(***************************************************************************)
(* A model of the fork-join scope of src/src/scope.rs and of the           *)
(* partitioning layer of src/src/iter.rs.                                   *)
(*                                                                         *)
(* Thread 0 is the thread that calls scope(); threads 1..workers are the   *)
(* background workers running State::worker.  Every atomic operation of    *)
(* the source (a load, a store, a fetch_add, a fetch_sub) is one step of   *)
(* the thread that performs it; a failed poll of a spin loop changes       *)
(* nothing and is a stuttering step.                                       *)
(*                                                                         *)
(* The atomics are read and written in one global order.  The source       *)
(* orders them so: the Relaxed store to pending and the store to the work  *)
(* cell precede the Release fetch_add on generation that a worker          *)
(* Acquire-loads before it touches either, and a worker's Release          *)
(* fetch_sub on pending precedes the Acquire load by which the caller      *)
(* sees 0.                                                                 *)
(*                                                                         *)
(* usize is MaxUsize + 1 values wide.  `+` and `*` wrap as in a release    *)
(* build; in a debug build they panic instead, which is one of the panics  *)
(* below.  A closure may panic as it is entered (CallerPanic,              *)
(* WorkerPanic), the body may panic between two calls (BodyPanic), and     *)
(* spawning a thread may fail (SpawnFail).                                 *)
(*                                                                         *)
(* Three specifications share the threads' steps and differ in what the    *)
(* body calls: Spec (broadcast), SpecIter (the iter_ and for_each_        *)
(* functions) and SpecFold (the fold_ functions).  FairSpec is Spec with   *)
(* a fair scheduler.                                                       *)
(***************************************************************************)
EXTENDS Naturals, Sequences, FiniteSets

(***************************************************************************)
(* Bounds of the model.                                                    *)
(***************************************************************************)
\* the largest number of background workers (parallelism - 1)
MaxWorkers == 2
\* the largest number of broadcast-based calls the body issues
MaxOps == 2
\* usize::MAX of the model: usize arithmetic is taken modulo MaxUsize + 1
MaxUsize == 7
\* the longest index range handed to iter_static / iter_dynamic
MaxRangeLen == 2
\* the longest slice handed to for_each_* / fold_*.  A slice never comes
\* near usize::MAX elements: MaxSliceLen + MaxWorkers + 1 <= MaxUsize
MaxSliceLen == 3

VARIABLES
    workers,          \* State.workers
    work,             \* State.work: STOP or the number of the published item
    pending,          \* State.pending
    generation,       \* State.generation
    pc,               \* the position of the calling thread in scope()
    spawned,          \* workers spawned so far by the loop of scope()
    unwinding,        \* TRUE while a panic unwinds the calling thread
    wpc,              \* the position of every worker in State::worker
    last_generation,  \* the local last_generation of every worker
    wwork,            \* the local `work` of every worker (the item it read)
    ops,              \* broadcasts started so far (the number of the latest item)
    item,             \* what the closure of the latest work item captured
    next_index,       \* the AtomicUsize next_index of iter_dynamic
    index,            \* index[t]: the local `index` of iter_dynamic's closure
    nums,             \* the slice handed to fold_static / fold_dynamic
    accum,            \* the accumulator vector handed to fold_*
    \* history variables (they record, and never influence, the behaviour)
    invoked,          \* invoked[b][t]: invocations of item b with thread index t
    finished,         \* finished[b]: threads whose invocation of item b has ended
    bcReturned,       \* broadcasts that have returned or unwound to the body
    panicked,         \* threads on which a work item panicked (0 is the caller)
    visits,           \* visits[i]: times the callback of the latest call got index i
    sub,              \* sub[t]: the subrange iter_static handed to thread t
    claimed,          \* claimed[t]: the elements thread t folded in the latest fold
    oob,              \* TRUE once a slice pointer was offset past the slice's end
    panic_site,       \* where the calling thread panicked: "none", "spawn", "body", "item"
    stale,            \* TRUE when the vector handed to the latest fold was not
                      \* already workers + 1 default slots
    late              \* the workers whose thread started to run only after an
                      \* item (work or stop) had been published, until they
                      \* have read that item

coreVars == <<workers, work, pending, generation, pc, spawned, unwinding, wpc,
              last_generation, wwork, ops>>
iterVars == <<item, next_index, index, nums, accum>>
histVars == <<invoked, finished, bcReturned, panicked, visits, sub, claimed, oob,
              panic_site, stale, late>>
vars == <<coreVars, iterVars, histVars>>

\* static STOP: &Work (the stop marker); work items are numbered from 1
STOP == 0

Threads == 0..MaxWorkers
WorkerIds == 1..MaxWorkers
Items == 1..MaxOps
Indices == 0..MaxUsize

(***************************************************************************)
(* usize arithmetic.                                                       *)
(***************************************************************************)
Modulus == MaxUsize + 1
\* a + b on usize, wrapping (fetch_add wraps; `+` wraps in a release build
\* and panics in a debug build)
WrapAdd(a, b) == (a + b) % Modulus
WrapMul(a, b) == (a * b) % Modulus
\* fetch_sub(1) on usize, wrapping
WrapDec(a) == (a + MaxUsize) % Modulus
Min(a, b) == IF a <= b THEN a ELSE b
\* usize::div_ceil
DivCeil(a, b) == IF a % b > 0 THEN (a \div b) + 1 ELSE a \div b
\* Range::<usize>::len
RangeLen(s, e) == IF s < e THEN e - s ELSE 0
\* the indices a Range s..e iterates over
RangeSet(s, e) == {i \in Indices : s <= i /\ i < e}

(***************************************************************************)
(* The partitioning arithmetic of iter.rs.                                 *)
(***************************************************************************)
\* iter_static: work.len().div_ceil(self.state.workers + 1)
WorkPerThread(s, e, w) == DivCeil(RangeLen(s, e), w + 1)

\* iter_static's closure: start = work.start + work_per_thread * thread
StaticStart(s, e, w, t) == WrapAdd(s, WrapMul(WorkPerThread(s, e, w), t))

\* mutant: the end of a subrange is not capped by work.end
StaticEndUncapped(s, e, w, t) ==
    WrapAdd(StaticStart(s, e, w, t), WorkPerThread(s, e, w))

\* iter_static's closure: end = work.end.min(start + work_per_thread)
StaticEnd(s, e, w, t) ==
    Min(e, WrapAdd(StaticStart(s, e, w, t), WorkPerThread(s, e, w)))

\* mutant: the shared counter starts one index early
NextIndexInitEarly(s, w) == WrapAdd(s, w)

\* iter_dynamic: AtomicUsize::new(work.start + self.state.workers + 1)
NextIndexInit(s, w) == WrapAdd(WrapAdd(s, w), 1)

\* iter_dynamic's closure: let mut index = work.start + thread
DynamicFirst(s, t) == WrapAdd(s, t)

\* iter_dynamic's closure: if index >= work.end { return }
DynamicStop(i, e) == i >= e

\* mutant: accum.clear() is missing, resize_with keeps the old slots
ResizeOnly(a, w) == [k \in 1..(w + 1) |-> IF k <= Len(a) THEN a[k] ELSE 0]

\* fold_*: accum.clear(); accum.resize_with(workers + 1, Default::default)
ResetAccum(a, w) == [k \in 1..(w + 1) |-> 0]

\* the caller combines the slots: sums.into_iter().map(|sum| sum.0).sum()
RECURSIVE SumSlots(_)
SumSlots(a) == IF a = <<>> THEN 0 ELSE Head(a) + SumSlots(Tail(a))

\* the reducer of the tests (*sum += num), folded over the elements of ns
\* whose indices are in S
RECURSIVE SumOver(_, _)
SumOver(ns, S) ==
    IF S = {} THEN 0
    ELSE LET i == CHOOSE j \in S : TRUE
         IN  ns[i + 1] + SumOver(ns, S \ {i})

(***************************************************************************)
(* Inputs.                                                                 *)
(***************************************************************************)
Kinds == {"broadcast", "iter_static", "for_each_static", "fold_static",
          "iter_dynamic", "for_each_dynamic", "fold_dynamic"}
StaticKinds == {"iter_static", "for_each_static", "fold_static"}
DynamicKinds == {"iter_dynamic", "for_each_dynamic", "fold_dynamic"}
FoldKinds == {"fold_static", "fold_dynamic"}
SliceKinds == {"for_each_static", "fold_static", "for_each_dynamic", "fold_dynamic"}

\* the ranges start..end handed to iter_static / iter_dynamic
Ranges == {r \in Indices \X Indices :
             r[1] <= r[2] /\ r[2] - r[1] <= MaxRangeLen}
\* the slices handed to fold_static / fold_dynamic.  The reducer adds and
\* never branches on an element, so element k is given the weight 2^(k-1):
\* a sum of weights tells which elements went into it, and how often
Slices == {[k \in 1..n |-> 2 ^ (k - 1)] : n \in 0..MaxSliceLen}
\* what the caller's accumulator vector holds before the first fold: it is
\* empty, or longer than workers + 1 and filled with Garbage by an earlier use
Garbage == 9
AccumInputs == {<<>>, [k \in 1..(MaxWorkers + 2) |-> Garbage]}

NoItem == [kind |-> "none", start |-> 0, end |-> 0]
NoSub == <<>>

InitScope ==
    /\ workers \in 0..MaxWorkers
    /\ work = STOP
    /\ pending = 0
    /\ generation = 0
    /\ pc = "spawn"
    /\ spawned = 0
    /\ unwinding = FALSE
    /\ wpc = [i \in WorkerIds |-> "unspawned"]
    /\ last_generation = [i \in WorkerIds |-> 0]
    /\ wwork = [i \in WorkerIds |-> STOP]
    /\ ops = 0
    /\ item = NoItem
    /\ next_index = 0
    /\ index = [t \in Threads |-> 0]
    /\ nums = <<>>
    /\ invoked = [b \in Items |-> [t \in Threads |-> 0]]
    /\ finished = [b \in Items |-> {}]
    /\ bcReturned = 0
    /\ panicked = {}
    /\ visits = [i \in Indices |-> 0]
    /\ sub = [t \in Threads |-> NoSub]
    /\ claimed = [t \in Threads |-> {}]
    /\ oob = FALSE
    /\ panic_site = "none"
    /\ stale = FALSE
    /\ late = {}

\* scope() is called; the caller's accumulator vector is empty
Init == InitScope /\ accum = <<>>

\* scope() is called; the caller's accumulator vector was used before
InitFold == InitScope /\ accum \in AccumInputs

(***************************************************************************)
(* One step of thread t in the closure of the latest work item.  `first`   *)
(* is TRUE for the step that enters the closure.  The closures of          *)
(* broadcast and of iter_static run to their end in one step; the closure  *)
(* of iter_dynamic takes one step per turn of its loop (one fetch_add      *)
(* each).                                                                  *)
(***************************************************************************)
\* the value of `index` that this turn of iter_dynamic's loop tests
DynamicIndex(t, first) ==
    IF first THEN DynamicFirst(item.start, t) ELSE index[t]

\* TRUE when this step leaves the closure
ItemDone(t, first) ==
    \/ item.kind \notin DynamicKinds
    \/ DynamicStop(DynamicIndex(t, first), item.end)

\* broadcast(f): f(thread) touches nothing shared
ExecBroadcast(t) ==
    UNCHANGED <<next_index, index, accum, visits, sub, claimed, oob>>

\* iter_static, for_each_static, fold_static: f(thread, start..end)
ExecStatic(t) ==
    LET s == StaticStart(item.start, item.end, workers, t)
        e == StaticEnd(item.start, item.end, workers, t)
        S == RangeSet(s, e)
    IN  /\ sub' = [sub EXCEPT ![t] = <<s, e>>]
        /\ visits' = [i \in Indices |->
                        IF i \in S THEN visits[i] + 1 ELSE visits[i]]
        /\ claimed' = IF item.kind = "fold_static"
                      THEN [claimed EXCEPT ![t] = S]
                      ELSE claimed
        \* work_ptr.0.add(range.start) on a slice of item.end elements
        /\ oob' = (oob \/ (item.kind \in SliceKinds /\ s > item.end))
        /\ accum' = IF item.kind = "fold_static"
                    THEN [accum EXCEPT ![t + 1] = @ + SumOver(nums, S)]
                    ELSE accum
        /\ UNCHANGED <<next_index, index>>

\* iter_dynamic, for_each_dynamic, fold_dynamic: one turn of the loop
ExecDynamic(t, first) ==
    LET i == DynamicIndex(t, first)
    IN  IF DynamicStop(i, item.end)
        THEN /\ index' = [index EXCEPT ![t] = i]
             /\ UNCHANGED <<next_index, accum, visits, sub, claimed, oob>>
        ELSE \* f(thread, index); index = next_index.fetch_add(1, Relaxed)
             /\ visits' = [visits EXCEPT ![i] = @ + 1]
             /\ claimed' = IF item.kind = "fold_dynamic"
                           THEN [claimed EXCEPT ![t] = @ \cup {i}]
                           ELSE claimed
             /\ accum' = IF item.kind = "fold_dynamic"
                         THEN [accum EXCEPT ![t + 1] = @ + nums[i + 1]]
                         ELSE accum
             /\ index' = [index EXCEPT ![t] = next_index]
             /\ next_index' = WrapAdd(next_index, 1)
             /\ UNCHANGED <<sub, oob>>

ItemEffect(t, first) ==
    IF item.kind \in StaticKinds THEN ExecStatic(t)
    ELSE IF item.kind \in DynamicKinds THEN ExecDynamic(t, first)
    ELSE ExecBroadcast(t)

\* the history of a step of thread t in item b
ItemHistory(t, b, first) ==
    /\ invoked' = IF first THEN [invoked EXCEPT ![b][t] = @ + 1] ELSE invoked
    /\ finished' = IF ItemDone(t, first)
                   THEN [finished EXCEPT ![b] = @ \cup {t}]
                   ELSE finished

(***************************************************************************)
(* The calling thread: scope().                                            *)
(***************************************************************************)
\* the spawn loop of scope(): spawn_scoped(..).unwrap() succeeds
Spawn ==
    /\ pc = "spawn"
    /\ spawned < workers
    /\ spawned' = spawned + 1
    /\ wpc' = [wpc EXCEPT ![spawned + 1] = "start"]
    /\ UNCHANGED <<workers, work, pending, generation, pc, unwinding,
                   last_generation, wwork, ops, iterVars, histVars>>

\* spawn_scoped fails and unwrap() panics: the closure of thread::scope
\* unwinds before StopGuard exists, and thread::scope waits for the threads
\* it has spawned
SpawnFail ==
    /\ pc = "spawn"
    /\ spawned < workers
    /\ unwinding' = TRUE
    /\ panic_site' = "spawn"
    /\ pc' = "join"
    /\ UNCHANGED <<workers, work, pending, generation, spawned, wpc,
                   last_generation, wwork, ops, iterVars, invoked, finished,
                   bcReturned, panicked, visits, sub, claimed, oob, stale, late>>

\* the loop is over: let _guard = StopGuard(state); f(Scope { .. })
EnterBody ==
    /\ pc = "spawn"
    /\ spawned = workers
    /\ pc' = "body"
    /\ UNCHANGED <<workers, work, pending, generation, spawned, unwinding, wpc,
                   last_generation, wwork, ops, iterVars, histVars>>

\* the body calls a broadcast-based operation: what runs on the calling
\* thread before broadcast_impl stores the work item
StartOp(kind, s, e, ns) ==
    /\ pc = "body"
    /\ ops < MaxOps
    /\ ops' = ops + 1
    /\ item' = [kind |-> kind, start |-> s, end |-> e]
    /\ next_index' = IF kind \in DynamicKinds THEN NextIndexInit(s, workers) ELSE 0
    /\ index' = [t \in Threads |-> 0]
    /\ nums' = ns
    /\ accum' = IF kind \in FoldKinds THEN ResetAccum(accum, workers) ELSE accum
    /\ visits' = [i \in Indices |-> 0]
    /\ sub' = [t \in Threads |-> NoSub]
    /\ claimed' = [t \in Threads |-> {}]
    /\ stale' = (kind \in FoldKinds /\ accum /= ResetAccum(accum, workers))
    /\ pc' = "set_work"
    /\ UNCHANGED <<workers, work, pending, generation, spawned, unwinding, wpc,
                   last_generation, wwork, invoked, finished, bcReturned,
                   panicked, oob, panic_site, late>>

BodyBroadcast == StartOp("broadcast", 0, 0, <<>>)
BodyIterStatic == \E r \in Ranges : StartOp("iter_static", r[1], r[2], <<>>)
BodyForEachStatic == \E n \in 0..MaxSliceLen : StartOp("for_each_static", 0, n, <<>>)
BodyFoldStatic == \E ns \in Slices : StartOp("fold_static", 0, Len(ns), ns)
BodyIterDynamic == \E r \in Ranges : StartOp("iter_dynamic", r[1], r[2], <<>>)
BodyForEachDynamic == \E n \in 0..MaxSliceLen : StartOp("for_each_dynamic", 0, n, <<>>)
BodyFoldDynamic == \E ns \in Slices : StartOp("fold_dynamic", 0, Len(ns), ns)

\* broadcast_impl: state.work.set(transmute(&f))
SetWork ==
    /\ pc = "set_work"
    /\ work' = ops
    /\ pc' = "store_pending"
    /\ UNCHANGED <<workers, pending, generation, spawned, unwinding, wpc,
                   last_generation, wwork, ops, iterVars, histVars>>

\* mutant: pending is set to the parallelism, counting the calling thread
StorePendingParallelism ==
    /\ pc = "store_pending"
    /\ pending' = workers + 1
    /\ pc' = "publish"
    /\ UNCHANGED <<workers, work, generation, spawned, unwinding, wpc,
                   last_generation, wwork, ops, iterVars, histVars>>

\* broadcast_impl: state.pending.store(self.state.workers, Relaxed)
StorePending ==
    /\ pc = "store_pending"
    /\ pending' = workers
    /\ pc' = "publish"
    /\ UNCHANGED <<workers, work, generation, spawned, unwinding, wpc,
                   last_generation, wwork, ops, iterVars, histVars>>

\* broadcast_impl: state.generation.fetch_add(1, Release)
Publish ==
    /\ pc = "publish"
    /\ generation' = WrapAdd(generation, 1)
    /\ pc' = "run"
    /\ UNCHANGED <<workers, work, pending, spawned, unwinding, wpc,
                   last_generation, wwork, ops, iterVars, histVars>>

\* broadcast_impl: f(0), one step of it
CallerRun ==
    /\ pc \in {"run", "loop"}
    /\ ItemEffect(0, pc = "run")
    /\ ItemHistory(0, ops, pc = "run")
    /\ pc' = IF ItemDone(0, pc = "run") THEN "drain" ELSE "loop"
    /\ UNCHANGED <<workers, work, pending, generation, spawned, unwinding, wpc,
                   last_generation, wwork, ops, item, nums, bcReturned, panicked,
                   panic_site, stale, late>>

\* f(0) panics: the unwinding drops ResetGuard
CallerPanic ==
    /\ pc = "run"
    /\ unwinding' = TRUE
    /\ panicked' = panicked \cup {0}
    /\ invoked' = [invoked EXCEPT ![ops][0] = @ + 1]
    /\ finished' = [finished EXCEPT ![ops] = @ \cup {0}]
    /\ panic_site' = "item"
    /\ pc' = "drain"
    /\ UNCHANGED <<workers, work, pending, generation, spawned, wpc,
                   last_generation, wwork, ops, iterVars, bcReturned, visits,
                   sub, claimed, oob, stale, late>>

\* mutant: broadcast_impl returns without waiting for the workers
DrainNoWait == TRUE

\* mutant: the drain loop stops one worker early
DrainOneEarly == pending <= 1

\* mutant: the wait is code after f(0) instead of a drop guard, so a panic
\* of f(0) skips it
DrainSkippedByPanic == pending = 0 \/ unwinding

\* ResetGuard::drop: while state.pending.load(Acquire) != 0 { wait(..) }
DrainDone == pending = 0

\* mutant: the reset of the work item at the end of a broadcast is published
\* like a work item
DrainPublishes ==
    /\ pc = "drain"
    /\ DrainDone
    /\ work' = STOP
    /\ generation' = WrapAdd(generation, 1)
    /\ bcReturned' = bcReturned + 1
    /\ pc' = IF unwinding THEN "stop_set" ELSE "body"
    /\ UNCHANGED <<workers, pending, spawned, unwinding, wpc,
                   last_generation, wwork, ops, iterVars, invoked, finished,
                   panicked, visits, sub, claimed, oob, panic_site, stale, late>>

\* ResetGuard::drop: the loop ends, state.work.set(STOP), and broadcast
\* returns to the body (or goes on unwinding through it)
Drain ==
    /\ pc = "drain"
    /\ DrainDone
    /\ work' = STOP
    /\ bcReturned' = bcReturned + 1
    /\ pc' = IF unwinding THEN "stop_set" ELSE "body"
    /\ UNCHANGED <<workers, pending, generation, spawned, unwinding, wpc,
                   last_generation, wwork, ops, iterVars, invoked, finished,
                   panicked, visits, sub, claimed, oob, panic_site, stale, late>>

\* the locals of the latest call are gone and its history is closed
ForgetCall ==
    /\ item' = NoItem
    /\ next_index' = 0
    /\ index' = [t \in Threads |-> 0]
    /\ nums' = <<>>
    /\ visits' = [i \in Indices |-> 0]
    /\ sub' = [t \in Threads |-> NoSub]
    /\ claimed' = [t \in Threads |-> {}]

\* the body returns: StopGuard is dropped
BodyReturn ==
    /\ pc = "body"
    /\ pc' = "stop_set"
    /\ ForgetCall
    /\ UNCHANGED <<workers, work, pending, generation, spawned, unwinding, wpc,
                   last_generation, wwork, ops, accum, invoked, finished,
                   bcReturned, panicked, oob, panic_site, stale, late>>

\* mutant: the stop marker is published by code after f(scope) instead of a
\* drop guard, so a panic of the body skips it
BodyPanicNoGuard ==
    /\ pc = "body"
    /\ unwinding' = TRUE
    /\ panic_site' = "body"
    /\ pc' = "join"
    /\ ForgetCall
    /\ UNCHANGED <<workers, work, pending, generation, spawned, wpc,
                   last_generation, wwork, ops, accum, invoked, finished,
                   bcReturned, panicked, oob, stale, late>>

\* the body panics between two broadcasts: the unwinding drops StopGuard
BodyPanic ==
    /\ pc = "body"
    /\ unwinding' = TRUE
    /\ panic_site' = "body"
    /\ pc' = "stop_set"
    /\ ForgetCall
    /\ UNCHANGED <<workers, work, pending, generation, spawned, wpc,
                   last_generation, wwork, ops, accum, invoked, finished,
                   bcReturned, panicked, oob, stale, late>>

\* StopGuard::drop: state.work.set(STOP)
StopSet ==
    /\ pc = "stop_set"
    /\ work' = STOP
    /\ pc' = "stop_publish"
    /\ UNCHANGED <<workers, pending, generation, spawned, unwinding, wpc,
                   last_generation, wwork, ops, iterVars, histVars>>

\* StopGuard::drop: state.generation.fetch_add(1, Release)
StopPublish ==
    /\ pc = "stop_publish"
    /\ generation' = WrapAdd(generation, 1)
    /\ pc' = "join"
    /\ UNCHANGED <<workers, work, pending, spawned, unwinding, wpc,
                   last_generation, wwork, ops, iterVars, histVars>>

\* thread::scope waits until every thread it spawned has ended
AllJoined == \A i \in 1..spawned : wpc[i] \in {"exited", "panicked"}

\* thread::scope: the wait is over; it returns the closure's result, or
\* resumes the closure's panic, or panics because a scoped thread panicked
Join ==
    /\ pc = "join"
    /\ AllJoined
    /\ pc' = IF unwinding \/ (\E i \in 1..spawned : wpc[i] = "panicked")
             THEN "unwound" ELSE "returned"
    /\ UNCHANGED <<workers, work, pending, generation, spawned, unwinding, wpc,
                   last_generation, wwork, ops, iterVars, histVars>>

(***************************************************************************)
(* Worker i: State::worker(thread), with thread = i.                       *)
(***************************************************************************)
\* mutant: last_generation starts at the generation read as the thread starts
LastGenerationAtStart(gen) == gen

\* let mut last_generation = 0 (gen is the shared generation as the thread
\* starts, which the source does not read)
LastGenerationInit(gen) == 0

\* the thread starts running State::worker
WorkerStart(i) ==
    /\ wpc[i] = "start"
    /\ last_generation' = [last_generation EXCEPT ![i] = LastGenerationInit(generation)]
    /\ wpc' = [wpc EXCEPT ![i] = "poll"]
    /\ late' = IF generation /= 0 THEN late \cup {i} ELSE late
    /\ UNCHANGED <<workers, work, pending, generation, pc, spawned, unwinding,
                   wwork, ops, iterVars, invoked, finished, bcReturned, panicked,
                   visits, sub, claimed, oob, panic_site, stale>>

\* mutant: the worker does not wait for a new generation
ObservedAlways(last, curr) == TRUE

\* if last_generation != curr_generation
Observed(last, curr) == last /= curr

\* the inner loop: curr_generation = generation.load(Acquire); on a change
\* last_generation = curr_generation; break
WorkerPoll(i) ==
    /\ wpc[i] = "poll"
    /\ Observed(last_generation[i], generation)
    /\ last_generation' = [last_generation EXCEPT ![i] = generation]
    /\ wpc' = [wpc EXCEPT ![i] = "read"]
    /\ UNCHANGED <<workers, work, pending, generation, pc, spawned, unwinding,
                   wwork, ops, iterVars, histVars>>

\* mutant: the stop marker is treated like a work item, the worker
\* decrements pending for it before it exits
WorkerReadCountsStop(i) ==
    /\ wpc[i] = "read"
    /\ wwork' = [wwork EXCEPT ![i] = work]
    /\ wpc' = [wpc EXCEPT ![i] = IF work = STOP THEN "exited" ELSE "run"]
    /\ pending' = IF work = STOP THEN WrapDec(pending) ELSE pending
    /\ late' = late \ {i}
    /\ UNCHANGED <<workers, work, generation, pc, spawned, unwinding,
                   last_generation, ops, iterVars, invoked, finished, bcReturned,
                   panicked, visits, sub, claimed, oob, panic_site, stale>>

\* let work = self.work.get(); if ptr::eq(work, STOP) { return }
WorkerRead(i) ==
    /\ wpc[i] = "read"
    /\ wwork' = [wwork EXCEPT ![i] = work]
    /\ wpc' = [wpc EXCEPT ![i] = IF work = STOP THEN "exited" ELSE "run"]
    /\ late' = late \ {i}
    /\ UNCHANGED <<workers, work, pending, generation, pc, spawned, unwinding,
                   last_generation, ops, iterVars, invoked, finished, bcReturned,
                   panicked, visits, sub, claimed, oob, panic_site, stale>>

\* work(thread), one step of it
WorkerRun(i) ==
    /\ wpc[i] \in {"run", "loop"}
    /\ ItemEffect(i, wpc[i] = "run")
    /\ ItemHistory(i, wwork[i], wpc[i] = "run")
    /\ wpc' = [wpc EXCEPT ![i] =
                 IF ItemDone(i, wpc[i] = "run") THEN "dec" ELSE "loop"]
    /\ UNCHANGED <<workers, work, pending, generation, pc, spawned, unwinding,
                   last_generation, wwork, ops, item, nums, bcReturned, panicked,
                   panic_site, stale, late>>

\* mutant: the unwinding worker decrements pending, as a drop guard around
\* work(thread) would
WorkerPanicDecrements(i) ==
    /\ wpc[i] = "run"
    /\ wpc' = [wpc EXCEPT ![i] = "panicked"]
    /\ pending' = WrapDec(pending)
    /\ panicked' = panicked \cup {i}
    /\ invoked' = [invoked EXCEPT ![wwork[i]][i] = @ + 1]
    /\ finished' = [finished EXCEPT ![wwork[i]] = @ \cup {i}]
    /\ UNCHANGED <<workers, work, generation, pc, spawned, unwinding,
                   last_generation, wwork, ops, iterVars, bcReturned, visits,
                   sub, claimed, oob, panic_site, stale, late>>

\* work(thread) panics: the worker thread unwinds and ends
WorkerPanic(i) ==
    /\ wpc[i] = "run"
    /\ wpc' = [wpc EXCEPT ![i] = "panicked"]
    /\ panicked' = panicked \cup {i}
    /\ invoked' = [invoked EXCEPT ![wwork[i]][i] = @ + 1]
    /\ finished' = [finished EXCEPT ![wwork[i]] = @ \cup {i}]
    /\ UNCHANGED <<workers, work, pending, generation, pc, spawned, unwinding,
                   last_generation, wwork, ops, iterVars, bcReturned, visits,
                   sub, claimed, oob, panic_site, stale, late>>

\* self.pending.fetch_sub(1, Release)
WorkerDec(i) ==
    /\ wpc[i] = "dec"
    /\ pending' = WrapDec(pending)
    /\ wpc' = [wpc EXCEPT ![i] = "poll"]
    /\ UNCHANGED <<workers, work, generation, pc, spawned, unwinding,
                   last_generation, wwork, ops, iterVars, histVars>>

\* what the calling thread does outside the body's choice of an operation
CallerSteps ==
    \/ Spawn \/ SpawnFail \/ EnterBody
    \/ SetWork \/ StorePending \/ Publish \/ CallerRun \/ CallerPanic \/ Drain
    \/ BodyReturn \/ BodyPanic \/ StopSet \/ StopPublish \/ Join

Worker(i) ==
    \/ WorkerStart(i) \/ WorkerPoll(i) \/ WorkerRead(i) \/ WorkerRun(i) \/ WorkerPanic(i)
    \/ WorkerDec(i)

Workers == \E i \in WorkerIds : Worker(i)

\* the body calls broadcast
Caller == BodyBroadcast \/ CallerSteps
Next == Caller \/ Workers
Spec == Init /\ [][Next]_vars

\* the body calls iter_static, for_each_static, iter_dynamic, for_each_dynamic
CallerIter ==
    \/ BodyIterStatic \/ BodyForEachStatic
    \/ BodyIterDynamic \/ BodyForEachDynamic
    \/ CallerSteps
NextIter == CallerIter \/ Workers
SpecIter == Init /\ [][NextIter]_vars

\* the body calls fold_static, fold_dynamic
CallerFold == BodyFoldStatic \/ BodyFoldDynamic \/ CallerSteps
NextFold == CallerFold \/ Workers
SpecFold == InitFold /\ [][NextFold]_vars

(***************************************************************************)
(* The scheduler runs every thread that can take a step: a spinning thread *)
(* yields (wait() calls thread::yield_now after six rounds), it never      *)
(* blocks another thread.                                                  *)
(***************************************************************************)
Fairness == WF_vars(Caller) /\ \A i \in WorkerIds : WF_vars(Worker(i))
FairSpec == Spec /\ Fairness

(***************************************************************************)
(* Properties.                                                             *)
(***************************************************************************)
Participants == 0..workers
\* broadcast number b has returned to the body, or unwound into it
Returned(b) == b <= bcReturned

\* C1: a call to broadcast invokes the work item exactly once with each
\* thread index 0..workers and with no other index: no index is ever used
\* twice for one item, no index above workers is ever used, and once the
\* broadcast is over every index 0..workers was used once.
C1_BroadcastExactlyOnce ==
    /\ \A b \in Items : \A t \in Threads :
         /\ invoked[b][t] <= 1
         /\ (t \notin Participants => invoked[b][t] = 0)
    /\ \A b \in Items : Returned(b) =>
         \A t \in Participants : invoked[b][t] = 1

\* two broadcasts are over, with every worker taking part and no panic
C1_Witness ==
    /\ workers = MaxWorkers
    /\ bcReturned = 2
    /\ panicked = {}
    /\ \A t \in Participants : invoked[2][t] = 1

\* C2: broadcast does not return before every participant has finished the
\* work item: when broadcast b is over, the invocations of item b on the
\* calling thread and on each of the workers have all ended.
C2_ReturnAfterAllFinished ==
    \A b \in Items : Returned(b) => finished[b] = Participants

\* a broadcast has just returned to the body after every worker ran its item
C2_Witness ==
    /\ workers = MaxWorkers
    /\ pc = "body"
    /\ bcReturned = 1
    /\ finished[1] = Participants

\* C3: back-to-back broadcasts do not interleave: nobody has started item
\* b + 1 unless every participant has finished item b, and while the caller
\* stores the next work item and publishes it (before the store to pending)
\* pending is 0 and every earlier item is finished by everybody.
C3_NoInterleaving ==
    /\ \A b \in Items : \A t \in Threads :
         (b > 1 /\ invoked[b][t] > 0) => finished[b - 1] = Participants
    /\ pc \in {"set_work", "store_pending"} => pending = 0
    /\ pc \in {"set_work", "store_pending", "publish"} =>
         \A b \in Items : b < ops => finished[b] = Participants

\* a worker runs the second work item
C3_Witness ==
    /\ workers = MaxWorkers
    /\ ops = 2
    /\ \E i \in WorkerIds : wpc[i] = "run" /\ wwork[i] = 2

\* every worker of the scope has read the stop marker after the last
\* generation change and has left its loop
AllWorkersStopped ==
    \A i \in 1..workers :
        /\ wpc[i] = "exited"
        /\ wwork[i] = STOP
        /\ last_generation[i] = generation

\* C4 (clean shutdown): once the body runs, and unless the body or a work
\* item panics, the scope call eventually returns; and whenever it has
\* returned, every worker has observed the stop marker and left its loop.
C4_CleanShutdown ==
    /\ [](pc = "returned" => AllWorkersStopped)
    /\ (pc = "body") ~> (pc = "returned" \/ unwinding \/ panicked /= {})

\* the scope has returned after two broadcasts on the largest pool
C4_Witness ==
    /\ workers = MaxWorkers
    /\ pc = "returned"
    /\ bcReturned = 2
    /\ AllWorkersStopped

\* C5: a panic of the body on the calling thread still shuts the pool down:
\* the stop marker is published, every worker leaves its loop and is joined,
\* and only then does the panic leave scope().
C5_BodyPanicShutsDown ==
    /\ []((pc = "unwound" /\ panic_site = "body") =>
            (work = STOP /\ AllWorkersStopped))
    /\ (panic_site = "body") ~> (pc = "unwound")

\* the body panicked after a broadcast and the panic has left scope()
C5_Witness ==
    /\ workers = MaxWorkers
    /\ panic_site = "body"
    /\ bcReturned = 1
    /\ pc = "unwound"
    /\ AllWorkersStopped

\* C6: when spawning a worker fails after others were spawned, the body is
\* never run, the spawned workers are stopped and joined, and the call ends
\* by unwinding: the scope never gets stuck short of that.
C6_SpawnFailureAborts ==
    panic_site = "spawn" =>
        /\ ops = 0
        /\ pc \in {"join", "unwound"}
        /\ (pc = "unwound" \/ ENABLED Next)

\* the latest call has handed every participant its subrange
AllHanded == \A t \in Participants : sub[t] /= NoSub
\* the latest broadcast-based call has returned to the body
CallReturned == pc = "body" /\ bcReturned = ops

\* C7 (static partition exactness): the workers + 1 subranges that
\* iter_static hands out are contiguous in index order (the first starts at
\* start, each next one starts where the previous one ends, the last ends at
\* end), hence pairwise disjoint with union [start, end), and every index
\* of the range is visited exactly once and no other index is.
C7_StaticPartitionExact ==
    (item.kind \in StaticKinds /\ AllHanded) =>
        /\ sub[0][1] = item.start
        /\ \A t \in 1..workers : sub[t][1] = sub[t - 1][2]
        /\ sub[workers][2] = item.end
        /\ \A t \in Participants : sub[t][1] <= sub[t][2]
        /\ \A i \in Indices :
             visits[i] = IF i \in RangeSet(item.start, item.end) THEN 1 ELSE 0

\* C8 (dynamic coverage): iter_dynamic never passes an index twice nor an
\* index outside [start, end) to the callback, and when it has returned it
\* has passed every index of [start, end) once.
C8_DynamicCoverage ==
    item.kind \in DynamicKinds =>
        /\ \A i \in Indices :
             /\ visits[i] <= 1
             /\ (visits[i] > 0 => i \in RangeSet(item.start, item.end))
        /\ CallReturned =>
             \A i \in RangeSet(item.start, item.end) : visits[i] = 1

\* C9 (fold correctness): during fold_static / fold_dynamic every slot
\* holds the sum of the elements its own thread processed, and nothing
\* else; and when the call has returned, the workers + 1 slots combined
\* give the sequential sum of the whole slice.
C9_FoldCorrect ==
    item.kind \in FoldKinds =>
        /\ Len(accum) = workers + 1
        /\ \A t \in Participants : accum[t + 1] = SumOver(nums, claimed[t])
        /\ CallReturned =>
             SumSlots(accum) = SumOver(nums, RangeSet(0, Len(nums)))

\* fold_dynamic has returned on two threads that shared a slice of three
\* elements, the worker having taken two of them
C9_Witness ==
    /\ CallReturned
    /\ item.kind = "fold_dynamic"
    /\ workers = 1
    /\ Len(nums) = 3
    /\ Cardinality(claimed[1]) = 2
    /\ SumSlots(accum) = 7

\* C10 (accumulator re-initialisation): when fold_static / fold_dynamic
\* comes to publish its work item the vector holds exactly workers + 1
\* default slots, whatever it held before; so when the call has returned,
\* every slot holds what its thread folded in this call and nothing else.
C10_AccumReinitialised ==
    item.kind \in FoldKinds =>
        /\ pc \in {"set_work", "store_pending", "publish"} =>
             accum = [k \in 1..(workers + 1) |-> 0]
        /\ CallReturned =>
             /\ Len(accum) = workers + 1
             /\ \A t \in Participants : accum[t + 1] = SumOver(nums, claimed[t])

\* a second fold has returned; the vector it was handed held the sums of
\* the first one
C10_Witness ==
    /\ CallReturned
    /\ item.kind \in FoldKinds
    /\ ops = 2
    /\ stale
    /\ workers = MaxWorkers
    /\ Len(nums) = MaxSliceLen

\* C12 (no dangling work reference): the work cell never holds the item of
\* a broadcast that is over; a worker that has read a work item and is
\* running it (or has not yet decremented pending for it) holds the item of
\* the broadcast still in flight, which is also what the cell still holds;
\* and the item in the cell is replaced by the stop marker only when
\* pending is 0.
C12_NoDanglingWork ==
    /\ [](work /= STOP => (work = ops /\ bcReturned < ops))
    /\ [](\A i \in WorkerIds :
            wpc[i] \in {"run", "loop", "dec"} =>
                (wwork[i] = ops /\ bcReturned < ops /\ work = wwork[i]))
    /\ [][(work /= STOP /\ work' = STOP) => pending = 0]_vars

\* the first broadcast is over and its item was replaced by the stop
\* marker; a worker has read the second item and runs it while the caller
\* waits in the drain loop
C12_Witness ==
    /\ workers = MaxWorkers
    /\ bcReturned = 1
    /\ pc = "drain"
    /\ \E i \in WorkerIds : wpc[i] = "run" /\ wwork[i] = 2 /\ work = 2

\* the caller is between the publication of the latest item and the end of
\* the drain loop
InFlight == pc \in {"run", "loop", "drain"}
\* the workers that have finished the latest item: their invocation has
\* ended without a panic and they have gone on to decrement pending
FinishedWorkers ==
    {i \in 1..workers : i \in finished[ops] /\ wpc[i] \notin {"dec", "panicked"}}

\* C13: between the publication of a work item and the end of the drain,
\* pending is workers minus the number of workers that have finished the
\* item; so pending is 0 exactly when every worker has executed the item,
\* once, and has finished it.
C13_PendingCountsUnfinished ==
    InFlight =>
        /\ pending = workers - Cardinality(FinishedWorkers)
        /\ (pending = 0) <=>
             \A i \in 1..workers : invoked[ops][i] = 1 /\ i \in FinishedWorkers

\* half way through the second broadcast: one worker has finished the item,
\* the other one is running it, and pending is 1
C13_Witness ==
    /\ InFlight
    /\ workers = 2
    /\ ops = 2
    /\ pending = 1
    /\ Cardinality(FinishedWorkers) = 1
    /\ \E i \in WorkerIds : wpc[i] = "run"

\* the work items published so far: the broadcasts whose fetch_add on
\* generation has happened, and the stop item once StopGuard::drop has
\* published it
PublishedItems ==
    (IF pc \in {"set_work", "store_pending", "publish"} THEN ops - 1 ELSE ops)
    + (IF pc \in {"join", "returned", "unwound"} /\ panic_site /= "spawn"
       THEN 1 ELSE 0)

\* C14: generation counts the published work items, the stop item
\* included: it is the number of items published so far, it is k + 1 when
\* scope() has returned after k broadcasts, every step that changes it
\* adds one and is one of the two publications, and the step that ends a
\* broadcast by resetting the work item to the stop marker leaves it alone.
C14_GenerationCountsItems ==
    /\ [](generation = PublishedItems)
    /\ [](pc = "returned" => generation = bcReturned + 1)
    /\ [][generation' /= generation =>
            (generation' = generation + 1 /\ pc \in {"publish", "stop_publish"})]_vars
    /\ [][pc = "drain" => generation' = generation]_vars

\* scope() has returned after two broadcasts: three items were published
C14_Witness ==
    /\ pc = "returned"
    /\ bcReturned = 2
    /\ generation = 3
    /\ workers = MaxWorkers

\* the workers on which a work item panicked
PanickedWorkers == panicked \cap WorkerIds

\* C15: once a work item has panicked on a worker, that worker has ended
\* without decrementing pending, pending is not 0 and never becomes 0
\* again, and the broadcast does not return: the caller is in f(0) or in
\* the drain loop of that broadcast for ever.
C15_WorkerPanicHangsCaller ==
    PanickedWorkers /= {} =>
        /\ \A i \in PanickedWorkers : wpc[i] = "panicked" /\ wwork[i] = ops
        /\ pending >= Cardinality(PanickedWorkers)
        /\ pending /= 0
        /\ InFlight
        /\ bcReturned < ops

\* the item panicked on one of two workers; the other worker has finished
\* the item, the caller is in the drain loop, and no thread can take a step
C15_Witness ==
    /\ workers = 2
    /\ Cardinality(PanickedWorkers) = 1
    /\ pc = "drain"
    /\ pending = 1
    /\ Cardinality(FinishedWorkers) = 1
    /\ ~ENABLED Next

\* C16: the drain of a broadcast cannot be skipped by a panic of f(0):
\* after such a panic the caller is in the drain loop until pending is 0,
\* and when the panic has left broadcast every participant's invocation
\* of the item has ended, no worker is executing it, pending is 0, and the
\* step that let the panic out reset the work item to the stop marker.
C16_DrainNotSkippable ==
    /\ [](panic_site = "item" =>
            \/ pc = "drain" /\ bcReturned < ops
            \/ /\ bcReturned = ops
               /\ pending = 0
               /\ finished[ops] = Participants
               /\ \A i \in 1..workers : wpc[i] \notin {"run", "loop", "dec"}
               /\ work = STOP)
    /\ [][(panic_site = "item" /\ pc = "drain" /\ pc' /= "drain") =>
            (pending = 0 /\ work' = STOP)]_vars

\* f(0) of the second broadcast panicked and the panic has left broadcast,
\* after both workers had run the item to its end
C16_Witness ==
    /\ workers = MaxWorkers
    /\ panic_site = "item"
    /\ ops = 2
    /\ pc = "stop_set"
    /\ \A i \in 1..workers : invoked[2][i] = 1 /\ i \in FinishedWorkers

\* C17: in iter_static (and in the calls built on it) a thread whose
\* computed start, start + chunk * i, is not below end is handed the range
\* from that start to an end that is not above it, an empty range, and the
\* step in which it runs its callback visits no index.
C17_StartPastEndIsEmpty ==
    /\ [](\A t \in Participants :
            (item.kind \in StaticKinds /\ sub[t] /= NoSub
               /\ StaticStart(item.start, item.end, workers, t) >= item.end) =>
                /\ sub[t][1] = StaticStart(item.start, item.end, workers, t)
                /\ sub[t][2] <= sub[t][1]
                /\ RangeSet(sub[t][1], sub[t][2]) = {})
    /\ [][\A t \in Participants :
            (item.kind \in StaticKinds /\ sub[t] = NoSub /\ sub'[t] /= NoSub
               /\ StaticStart(item.start, item.end, workers, t) >= item.end) =>
                visits' = visits]_vars

\* iter_static(0..1) on three threads: thread 2 computes start 2, is handed
\* 2..1, and index 0 was visited once, by thread 0
C17_Witness ==
    /\ item.kind = "iter_static"
    /\ workers = 2
    /\ item.start = 0 /\ item.end = 1
    /\ AllHanded
    /\ sub[2] = <<2, 1>>
    /\ visits[0] = 1

\* C18: every subrange that iter_static passes to the callback lies inside
\* the input range, start <= sub.start <= sub.end <= end, and for_each_static
\* and fold_static never offset the slice pointer past the end of the
\* slice.
C18_SubrangesInsideInput ==
    /\ \A t \in Participants :
         (item.kind \in StaticKinds /\ sub[t] /= NoSub) =>
             /\ item.start <= sub[t][1]
             /\ sub[t][1] <= sub[t][2]
             /\ sub[t][2] <= item.end
    /\ ~oob

\* the number of the latest broadcast item that has been published
LatestItem ==
    IF pc \in {"set_work", "store_pending", "publish"} THEN ops - 1 ELSE ops

\* C19 (no missed or repeated wake-up): the last_generation of a running
\* worker is the shared generation or one less; a worker that waits with
\* last_generation equal to the shared generation has nothing to catch up
\* with (nothing was published yet, or the latest published item is a
\* broadcast item that it has executed once and finished); and every
\* change of a worker's last_generation is to the next value, which is the
\* value of the shared generation.  So every published generation is
\* observed once by every worker, also by one that started to run after
\* the publication.
C19_NoMissedWakeup ==
    /\ [](\A i \in 1..workers :
            wpc[i] \notin {"unspawned", "start"} =>
                \/ last_generation[i] = generation
                \/ last_generation[i] + 1 = generation)
    /\ [](\A i \in 1..workers :
            (wpc[i] = "poll" /\ last_generation[i] = generation) =>
                \/ generation = 0
                \/ /\ generation = LatestItem
                   /\ i \in finished[LatestItem]
                   /\ invoked[LatestItem][i] = 1)
    /\ [][\A i \in WorkerIds :
            last_generation'[i] /= last_generation[i] =>
                /\ last_generation'[i] = last_generation[i] + 1
                /\ last_generation'[i] = generation]_vars

\* a worker whose thread started to run after the first work item was
\* published has observed the new generation and is about to read the
\* item, while the caller waits for it in the drain loop
C19_Witness ==
    /\ workers = MaxWorkers
    /\ generation = 1
    /\ work = 1
    /\ pc = "drain"
    /\ \E i \in late : wpc[i] = "read" /\ last_generation[i] = 1

\* C20: pending is within 0..workers in every reachable state; it changes
\* only when the caller stores workers into it and when a worker that has
\* executed a work item takes one off a value that is at least 1; a worker
\* leaves the executed item only through that decrement (unless the item
\* panicked); a worker that reads the stop marker exits and leaves pending
\* alone; and pending is 0 when StopGuard publishes the stop marker.
C20_PendingInRange ==
    /\ [](pending \in 0..workers)
    /\ [](pc \in {"stop_set", "stop_publish"} => pending = 0)
    /\ [][pending' /= pending =>
            \/ pc = "store_pending" /\ pending' = workers
            \/ /\ pending >= 1
               /\ pending' = pending - 1
               /\ \E i \in 1..workers : wpc[i] = "dec" /\ wpc'[i] = "poll"]_vars
    /\ [][\A i \in WorkerIds :
            /\ (wpc[i] = "dec" /\ wpc'[i] /= "dec") => pending' = pending - 1
            /\ (wpc[i] = "read" /\ wpc'[i] = "exited") => pending' = pending]_vars

\* shutdown after two broadcasts: the stop marker is published with
\* pending 0, one worker has read it and exited, the other one has observed
\* the new generation and is about to read it
C20_Witness ==
    /\ workers = 2
    /\ bcReturned = 2
    /\ pc = "join"
    /\ pending = 0
    /\ work = STOP
    /\ \E i, j \in 1..workers : wpc[i] = "exited" /\ wpc[j] = "read"

====
